---- MODULE Spec2Model ----
(***************************************************************************)
(* mdview.py: a regex-driven Markdown-to-ANSI styler with a small command  *)
(* line around it.  Text is a sequence of characters (one-character        *)
(* strings; ESC stands for the single character \033).  Each re.sub /      *)
(* re.findall / str.replace / str.split of the program is an operator that *)
(* computes what Python's engine computes for that pattern.                *)
(***************************************************************************)
EXTENDS Integers, Sequences, FiniteSets, TLC

VARIABLES argv, source, outcome, lexers, pc, word_limit, output_html,
          content, reads, renders, calls, exit_code, stdout

vars == <<argv, source, outcome, lexers, pc, word_limit, output_html,
          content, reads, renders, calls, exit_code, stdout>>

(***************************************************************************)
(* Bounds of the model.                                                    *)
(***************************************************************************)
MaxLen == 4       \* longest document of the exhaustive family
MaxSpan == 4      \* longest t in "**" + t + "**" and "__" + t + "__"
MaxBody == 3      \* longest code body of the fenced family
MaxArgs == 4      \* most command-line arguments after the program name
MaxCliDoc == 3    \* longest document read by the command-line runs

(***************************************************************************)
(* Characters.                                                             *)
(***************************************************************************)
ESC == "ESC"
NL == "\n"
BT == "BT"     \* the backtick

\* ord() of the characters the patterns compare by code point.
Ord(c) ==
  CASE c = NL -> 10
    [] c = ESC -> 27
    [] c = " " -> 32
    [] c = "#" -> 35
    [] c = "*" -> 42
    [] c = "+" -> 43
    [] c = "," -> 44
    [] c = "-" -> 45
    [] c = "." -> 46
    [] c = "/" -> 47
    [] c = "0" -> 48
    [] c = "1" -> 49
    [] c = "2" -> 50
    [] c = "3" -> 51
    [] c = "4" -> 52
    [] c = "9" -> 57
    [] c = "<" -> 60
    [] c = ">" -> 62
    [] c = "[" -> 91
    [] c = "_" -> 95
    [] c = BT -> 96
    [] c = "a" -> 97
    [] c = "b" -> 98
    [] c = "m" -> 109
    [] c = "p" -> 112
    [] c = "x" -> 120
    [] c = "~" -> 126

\* \s
IsSpace(c) == c \in {" ", NL}
\* \d
IsDigit(c) == Ord(c) >= 48 /\ Ord(c) <= 57
\* \w
IsWord(c) == IsDigit(c) \/ c = "_" \/ (Ord(c) >= 97 /\ Ord(c) <= 122)
\* the character class [*-+]: a range from '*' to '+'
IsListMarker(c) == Ord(c) >= Ord("*") /\ Ord(c) <= Ord("+")

Min(S) == CHOOSE x \in S : \A y \in S : x <= y

\* s[i..] begins with m
StartsAt(s, i, m) ==
  /\ i >= 1
  /\ i + Len(m) - 1 <= Len(s)
  /\ \A k \in 1..Len(m) : s[i + k - 1] = m[k]

\* ^ under re.M: at the start of the text or right after a newline
LineStart(s, i) == i = 1 \/ s[i - 1] = NL

\* where a greedy .* that starts at i stops: the next newline or the end
EndOfLine(s, i) ==
  Min({j \in i..(Len(s) + 1) : j = Len(s) + 1 \/ s[j] = NL})

\* where a greedy \s* that starts at i stops
SkipSpace(s, i) ==
  Min({j \in i..(Len(s) + 1) : j = Len(s) + 1 \/ ~IsSpace(s[j])})

\* where a greedy \d* that starts at i stops
SkipDigits(s, i) ==
  Min({j \in i..(Len(s) + 1) : j = Len(s) + 1 \/ ~IsDigit(s[j])})

\* where a greedy \w* that starts at i stops
SkipWord(s, i) ==
  Min({j \in i..(Len(s) + 1) : j = Len(s) + 1 \/ ~IsWord(s[j])})

\* where #{1,6} that starts at i stops (i itself when there is no '#')
SkipHashes(s, i) ==
  Min({j \in i..(i + 6) : j = i + 6 \/ j >= Len(s) + 1 \/ s[j] # "#"})

(***************************************************************************)
(* ANSI_CODES and apply_ansi_style.                                        *)
(***************************************************************************)
Styles == {"bold", "italic", "underline", "strikethrough", "reset"}

ANSI_CODES(style) ==
  CASE style = "bold" -> <<ESC, "[", "1", "m">>
    [] style = "italic" -> <<ESC, "[", "3", "m">>
    [] style = "underline" -> <<ESC, "[", "4", "m">>
    [] style = "strikethrough" -> <<ESC, "[", "9", "m">>
    [] style = "reset" -> <<ESC, "[", "0", "m">>
    [] OTHER -> <<>>

\* apply_ansi_style without the closing reset sequence
apply_ansi_style_unterminated(text, style) == ANSI_CODES(style) \o text

apply_ansi_style(text, style) ==
  ANSI_CODES(style) \o text \o ANSI_CODES("reset")

(***************************************************************************)
(* The eight substitutions of render_markdown.  Each XxxMatch(s, i) is the *)
(* match of the pattern anchored at position i: a record with the end      *)
(* (first position after the match) and the captured group, or NoMatch.    *)
(***************************************************************************)
NoMatch == [end |-> 0, group |-> <<>>]

\* ^ (#{1,6}) \s* ( .* )  with re.M
HeadingMatch(s, i) ==
  IF LineStart(s, i) /\ StartsAt(s, i, <<"#">>)
  THEN LET g == SkipSpace(s, SkipHashes(s, i))
           e == EndOfLine(s, g)
       IN [end |-> e, group |-> SubSeq(s, g, e - 1)]
  ELSE NoMatch

\* mark ( .*? ) mark : the nearest closing mark on the same line
PairMatch(s, i, mark) ==
  IF StartsAt(s, i, mark)
  THEN LET b == i + Len(mark)
           close == {k \in b..(EndOfLine(s, b) - Len(mark)) : StartsAt(s, k, mark)}
       IN IF close = {} THEN NoMatch
          ELSE [end |-> Min(close) + Len(mark), group |-> SubSeq(s, b, Min(close) - 1)]
  ELSE NoMatch

\* the block-quote pattern with the ^ anchor left out
QuoteMatchUnanchored(s, i) ==
  IF StartsAt(s, i, <<">", " ">>)
  THEN LET e == EndOfLine(s, i + 2)
       IN [end |-> e, group |-> SubSeq(s, i + 2, e - 1)]
  ELSE NoMatch

\* ^ \> space ( .* )  with re.M
QuoteMatch(s, i) ==
  IF LineStart(s, i) /\ StartsAt(s, i, <<">", " ">>)
  THEN LET e == EndOfLine(s, i + 2)
       IN [end |-> e, group |-> SubSeq(s, i + 2, e - 1)]
  ELSE NoMatch

\* ^ [*-+] \s+ ( .* )  with re.M
UListMatch(s, i) ==
  IF LineStart(s, i) /\ i + 1 <= Len(s) /\ IsListMarker(s[i]) /\ IsSpace(s[i + 1])
  THEN LET g == SkipSpace(s, i + 1)
           e == EndOfLine(s, g)
       IN [end |-> e, group |-> SubSeq(s, g, e - 1)]
  ELSE NoMatch

\* ^ \d+ \. \s+ ( .* )  with re.M
OListMatch(s, i) ==
  IF LineStart(s, i) /\ i <= Len(s) /\ IsDigit(s[i])
  THEN LET d == SkipDigits(s, i)
       IN IF d + 1 <= Len(s) /\ s[d] = "." /\ IsSpace(s[d + 1])
          THEN LET g == SkipSpace(s, d + 1)
                   e == EndOfLine(s, g)
               IN [end |-> e, group |-> SubSeq(s, g, e - 1)]
          ELSE NoMatch
  ELSE NoMatch

\* The rule numbers of the substitutions, in the order render_markdown runs them.
RuleMatch(rule, s, i) ==
  CASE rule = 1 -> HeadingMatch(s, i)
    [] rule = 2 -> PairMatch(s, i, <<"*", "*">>)
    [] rule = 3 -> PairMatch(s, i, <<"_">>)
    [] rule = 4 -> PairMatch(s, i, <<"_", "_">>)
    [] rule = 5 -> PairMatch(s, i, <<"~", "~">>)
    [] rule = 6 -> QuoteMatch(s, i)
    [] rule = 7 -> UListMatch(s, i)
    [] rule = 8 -> OListMatch(s, i)

\* the replacement function (the lambda) of each rule
RuleRepl(rule, group) ==
  CASE rule = 1 -> apply_ansi_style(group, "bold")
    [] rule = 2 -> apply_ansi_style(group, "bold")
    [] rule = 3 -> apply_ansi_style(group, "italic")
    [] rule = 4 -> apply_ansi_style(group, "underline")
    [] rule = 5 -> apply_ansi_style(group, "strikethrough")
    [] rule = 6 -> apply_ansi_style(group, "italic")
    [] rule = 7 -> <<"-", " ">> \o group
    [] rule = 8 -> <<"1", ".", " ">> \o group

\* re.sub: scan left to right, replace each leftmost non-overlapping match
RECURSIVE SubFrom(_, _, _)
SubFrom(rule, s, i) ==
  IF i > Len(s) THEN <<>>
  ELSE LET m == RuleMatch(rule, s, i)
       IN IF m.end > 0
          THEN RuleRepl(rule, m.group) \o SubFrom(rule, s, m.end)
          ELSE <<s[i]>> \o SubFrom(rule, s, i + 1)

re_sub(rule, s) == SubFrom(rule, s, 1)

RECURSIVE ApplyRules(_, _)
ApplyRules(s, rule) ==
  IF rule > 8 THEN s ELSE ApplyRules(re_sub(rule, s), rule + 1)

(***************************************************************************)
(* Fenced code blocks: re.findall, highlight_code and str.replace.         *)
(***************************************************************************)
Fence == <<BT, BT, BT>>

\* ``` ( \w+ )? \n ( .*? ) ```  with re.S, anchored at i
FenceMatch(s, i) ==
  IF StartsAt(s, i, Fence)
  THEN LET w == SkipWord(s, i + 3)
           close == {k \in (w + 1)..(Len(s) - 2) : StartsAt(s, k, Fence)}
       IN IF w <= Len(s) /\ s[w] = NL /\ close # {}
          THEN [end |-> Min(close) + 3,
                lang |-> SubSeq(s, i + 3, w - 1),
                code |-> SubSeq(s, w + 1, Min(close) - 1)]
          ELSE [end |-> 0, lang |-> <<>>, code |-> <<>>]
  ELSE [end |-> 0, lang |-> <<>>, code |-> <<>>]

\* re.findall: the (lang, code) pairs of the non-overlapping matches, in order
RECURSIVE FindAllFrom(_, _)
FindAllFrom(s, i) ==
  IF i > Len(s) THEN <<>>
  ELSE LET m == FenceMatch(s, i)
       IN IF m.end > 0
          THEN <<[lang |-> m.lang, code |-> m.code]>> \o FindAllFrom(s, m.end)
          ELSE FindAllFrom(s, i + 1)

re_findall(s) == FindAllFrom(s, 1)

\* str.replace(old, new) for a non-empty old: every non-overlapping occurrence
RECURSIVE ReplaceFrom(_, _, _, _)
ReplaceFrom(s, i, old, new) ==
  IF i > Len(s) THEN <<>>
  ELSE IF StartsAt(s, i, old)
       THEN new \o ReplaceFrom(s, i + Len(old), old, new)
       ELSE <<s[i]>> \o ReplaceFrom(s, i + 1, old, new)

str_replace(s, old, new) == ReplaceFrom(s, 1, old, new)

\* pygments.highlight with a TerminalFormatter (third party): the code between
\* a colour prefix and the reset sequence
Pygmentize(code) == <<ESC, "[", "3", "2", "m">> \o code \o ANSI_CODES("reset")

\* the name highlight_code is given when the fence carries no tag
Plaintext == <<"plaintext">>

\* try: get_lexer_by_name(lang) ... except: return code.  known is the set of
\* names the installed highlighter resolves.
highlight_code(code, lang, known) ==
  IF lang \in known THEN Pygmentize(code) ELSE code

\* for lang, code in code_blocks: text = text.replace(fence text, highlighted)
RECURSIVE ReplaceBlocks(_, _, _, _)
ReplaceBlocks(text, blocks, n, known) ==
  IF n > Len(blocks) THEN text
  ELSE LET lang == blocks[n].lang
           code == blocks[n].code
           highlighted == highlight_code(code, IF lang # <<>> THEN lang ELSE Plaintext, known)
       IN ReplaceBlocks(str_replace(text, Fence \o lang \o <<NL>> \o code \o Fence, highlighted),
                        blocks, n + 1, known)

render_markdown(text, known) ==
  LET t == ApplyRules(text, 1)
  IN ReplaceBlocks(t, re_findall(t), 1, known)

(***************************************************************************)
(* Documents the runs draw from.                                           *)
(***************************************************************************)
\* the texts of at most n characters of A
Strings(A, n) == UNION {[1..k -> A] : k \in 0..n}

Sigma == {"#", "*", "_", "~", ">", "-", "+", " ", NL, "a", "1", "."}

\* every text of at most MaxLen characters
Docs == Strings(Sigma, MaxLen)

\* the texts t of "**" + t + "**" and "__" + t + "__": no '*' among them
SpanSigma == {"_", "~", "#", ">", "-", " ", NL, "a"}

Spans == Strings(SpanSigma, MaxSpan)

SpanDocs == {m \o t \o m : m \in {<<"*", "*">>, <<"_", "_">>}, t \in Spans}

\* one fenced block: ``` + tag + newline + body + ```
BodySigma == {"#", "_", "*", "~", ">", "-", " ", NL, "a", "1", "."}

Bodies == Strings(BodySigma, MaxBody)

Tags == {<<>>, <<"x">>}

FenceDocs == {Fence \o tag \o <<NL>> \o body \o Fence : tag \in Tags, body \in Bodies}

\* what the installed highlighter may resolve
LexerSets == SUBSET {<<"x">>, Plaintext}

(***************************************************************************)
(* render_markdown applied to one document.                                *)
(***************************************************************************)
None == <<>>

CliIdle ==
  /\ argv = <<>> /\ outcome = "ok" /\ word_limit = None /\ output_html = FALSE
  /\ reads = 0 /\ renders = 0 /\ calls = <<>> /\ exit_code = None /\ stdout = <<>>

InitRender ==
  /\ source \in Docs
  /\ lexers = {}
  /\ content = source
  /\ pc = "call"
  /\ CliIdle

InitSpan ==
  /\ source \in SpanDocs
  /\ lexers = {}
  /\ content = source
  /\ pc = "call"
  /\ CliIdle

InitFence ==
  /\ source \in FenceDocs
  /\ lexers \in LexerSets
  /\ content = source
  /\ pc = "call"
  /\ CliIdle

Render ==
  /\ pc = "call"
  /\ content' = render_markdown(source, lexers)
  /\ pc' = "return"
  /\ UNCHANGED <<argv, source, outcome, lexers, word_limit, output_html,
                 reads, renders, calls, exit_code, stdout>>

SpecRender == InitRender /\ [][Render]_vars

SpecSpan == InitSpan /\ [][Render]_vars

SpecFence == InitFence /\ [][Render]_vars

(***************************************************************************)
(* The command line: the module's __main__ block, get_file_content,        *)
(* fetch_github_raw and view_markdown, one action per step.  sys.argv[k]   *)
(* is argv[k + 1].                                                         *)
(***************************************************************************)
RemoteArg == "https://raw.githubusercontent.com/o/r/main/README.md"
LocalArg == "README.md"
HtmlFlag == "--html"

\* str.startswith('https://raw.githubusercontent.com')
IsRemote(a) == a = RemoteArg

\* the one-character argument U+00B2, SUPERSCRIPT TWO
SuperscriptTwo == "^2"

\* str.isdigit over the arguments the runs use: true of the decimal digits and
\* of the superscript digit
isdigit(a) == a \in {"0", "1", SuperscriptTwo}

\* the arguments int() converts; on a superscript digit it raises ValueError
IsDecimal(a) == a \in {"0", "1"}
int(a) == CASE a = "0" -> 0 [] a = "1" -> 1

Paths == {LocalArg, RemoteArg}
Args == {LocalArg, "0", "1", SuperscriptTwo, HtmlFlag}

ArgLists(n) == UNION {[1..k -> Args] : k \in 0..n}

\* the program name alone, or the program name, a path and up to MaxArgs - 1 more
Argvs ==
  {<<"view">>} \cup {<<"view", p>> \o rest : p \in Paths, rest \in ArgLists(MaxArgs - 1)}

\* what reading the source does: open() and file.read(), or requests.get()
LocalOutcomes == {"ok", "FileNotFoundError", "PermissionError"}
RemoteOutcomes == {"ok", "RequestException"}

CliSigma == {"a", " ", "*"}
CliDocs == Strings(CliSigma, MaxCliDoc)

\* str.split(): the maximal runs of non-whitespace characters
RECURSIVE SplitFrom(_, _)
SplitFrom(s, i) ==
  LET b == SkipSpace(s, i)
      e == Min({j \in b..(Len(s) + 1) : j = Len(s) + 1 \/ IsSpace(s[j])})
  IN IF b > Len(s) THEN <<>>
     ELSE <<SubSeq(s, b, e - 1)>> \o SplitFrom(s, e)

str_split(s) == SplitFrom(s, 1)

\* ' '.join(words)
RECURSIVE str_join(_)
str_join(words) ==
  IF words = <<>> THEN <<>>
  ELSE IF Len(words) = 1 THEN words[1]
  ELSE words[1] \o <<" ">> \o str_join(Tail(words))

\* words[:n]
Take(words, n) == SubSeq(words, 1, IF n < Len(words) THEN n ELSE Len(words))

\* markdown2.markdown (third party): the text as one HTML paragraph
markdown_to_html(text) == <<"<", "p", ">">> \o text \o <<"<", "/", "p", ">", NL>>

\* the truth value Python gives word_limit in "if word_limit:"
Truthy(w) == w # None /\ w[1] # 0

InitCli ==
  /\ argv \in Argvs
  /\ outcome \in (IF Len(argv) < 2 THEN {"ok"}
                  ELSE IF IsRemote(argv[2]) THEN RemoteOutcomes ELSE LocalOutcomes)
  /\ source \in (IF Len(argv) >= 2 /\ outcome = "ok" THEN CliDocs ELSE {<<>>})
  /\ lexers = {}
  /\ pc = "main"
  /\ word_limit = None
  /\ output_html = FALSE
  /\ content = <<>>
  /\ reads = 0
  /\ renders = 0
  /\ calls = <<>>
  /\ exit_code = None
  /\ stdout = <<>>

\* if len(sys.argv) < 2: print usage; sys.exit(1)
Usage ==
  /\ pc = "main"
  /\ Len(argv) < 2
  /\ stdout' = Append(stdout, "Usage")
  /\ exit_code' = <<1>>
  /\ pc' = "exited"
  /\ UNCHANGED <<argv, source, outcome, lexers, word_limit, output_html,
                 content, reads, renders, calls>>

\* int(sys.argv[k]) raises ValueError, which nothing catches: the interpreter
\* writes the traceback to stderr and ends with status 1
ParseRaises(html) ==
  /\ word_limit' = None
  /\ output_html' = html
  /\ exit_code' = <<1>>
  /\ pc' = "exited"

Parsed(limit, html) ==
  /\ word_limit' = limit
  /\ output_html' = html
  /\ pc' = "get_file_content"
  /\ UNCHANGED exit_code

\* the argument parsing with the limit after --html read whatever follows it
ParseArgsLimitAnyTail ==
  /\ pc = "main"
  /\ Len(argv) >= 2
  /\ IF Len(argv) = 3 /\ isdigit(argv[3])
     THEN IF IsDecimal(argv[3]) THEN Parsed(<<int(argv[3])>>, FALSE) ELSE ParseRaises(FALSE)
     ELSE IF Len(argv) > 3 /\ argv[3] = HtmlFlag
     THEN IF isdigit(argv[4])
          THEN IF IsDecimal(argv[4]) THEN Parsed(<<int(argv[4])>>, TRUE) ELSE ParseRaises(TRUE)
          ELSE Parsed(None, TRUE)
     ELSE Parsed(None, FALSE)
  /\ UNCHANGED <<argv, source, outcome, lexers, content, reads, renders,
                 calls, stdout>>

\* lines 90-99: word_limit and output_html from sys.argv
ParseArgs ==
  /\ pc = "main"
  /\ Len(argv) >= 2
  /\ IF Len(argv) = 3 /\ isdigit(argv[3])
     THEN IF IsDecimal(argv[3]) THEN Parsed(<<int(argv[3])>>, FALSE) ELSE ParseRaises(FALSE)
     ELSE IF Len(argv) > 3 /\ argv[3] = HtmlFlag
     THEN IF Len(argv) = 4 /\ isdigit(argv[4])
          THEN IF IsDecimal(argv[4]) THEN Parsed(<<int(argv[4])>>, TRUE) ELSE ParseRaises(TRUE)
          ELSE Parsed(None, TRUE)
     ELSE Parsed(None, FALSE)
  /\ UNCHANGED <<argv, source, outcome, lexers, content, reads, renders,
                 calls, stdout>>

\* fetch_github_raw with the sys.exit(1) of its except branch left out: the
\* function returns None and the caller goes on
FetchGithubRawNoExit ==
  /\ pc = "get_file_content"
  /\ IsRemote(argv[2])
  /\ reads' = reads + 1
  /\ IF outcome = "ok"
     THEN content' = source /\ UNCHANGED stdout
     ELSE stdout' = Append(stdout, "Error fetching file") /\ UNCHANGED content
  /\ pc' = "view_markdown"
  /\ UNCHANGED <<argv, source, outcome, lexers, word_limit, output_html,
                 renders, calls, exit_code>>

\* get_file_content on a raw.githubusercontent.com URL: fetch_github_raw
FetchGithubRaw ==
  /\ pc = "get_file_content"
  /\ IsRemote(argv[2])
  /\ reads' = reads + 1
  /\ IF outcome = "ok"
     THEN /\ content' = source
          /\ pc' = "view_markdown"
          /\ UNCHANGED <<stdout, exit_code>>
     ELSE /\ stdout' = Append(stdout, "Error fetching file")
          /\ exit_code' = <<1>>
          /\ pc' = "exited"
          /\ UNCHANGED content
  /\ UNCHANGED <<argv, source, outcome, lexers, word_limit, output_html,
                 renders, calls>>

\* get_file_content on a path: open, read, except FileNotFoundError.  Any
\* other exception of open or read is not caught: the interpreter writes the
\* traceback to stderr and ends with status 1.
OpenFile ==
  /\ pc = "get_file_content"
  /\ ~IsRemote(argv[2])
  /\ reads' = reads + 1
  /\ IF outcome = "ok"
     THEN /\ content' = source
          /\ pc' = "view_markdown"
          /\ UNCHANGED <<stdout, exit_code>>
     ELSE IF outcome = "FileNotFoundError"
     THEN /\ stdout' = Append(stdout, "File not found")
          /\ exit_code' = <<1>>
          /\ pc' = "exited"
          /\ UNCHANGED content
     ELSE /\ exit_code' = <<1>>
          /\ pc' = "exited"
          /\ UNCHANGED <<stdout, content>>
  /\ UNCHANGED <<argv, source, outcome, lexers, word_limit, output_html,
                 renders, calls>>

\* view_markdown, line 59: content = render_markdown(content)
ViewRender ==
  /\ pc = "view_markdown"
  /\ content' = render_markdown(content, lexers)
  /\ calls' = Append(calls, "render_markdown")
  /\ pc' = "html"
  /\ UNCHANGED <<argv, source, outcome, lexers, word_limit, output_html,
                 reads, renders, exit_code, stdout>>

\* view_markdown, lines 60-61: if output_html: content = markdown_to_html(content)
ViewHtml ==
  /\ pc = "html"
  /\ IF output_html
     THEN content' = markdown_to_html(content) /\ calls' = Append(calls, "markdown_to_html")
     ELSE UNCHANGED <<content, calls>>
  /\ pc' = "truncate"
  /\ UNCHANGED <<argv, source, outcome, lexers, word_limit, output_html,
                 reads, renders, exit_code, stdout>>

\* view_markdown, lines 63-65: words = content.split(); if word_limit: join
ViewTruncate ==
  /\ pc = "truncate"
  /\ IF Truthy(word_limit)
     THEN /\ content' = str_join(Take(str_split(content), word_limit[1]))
          /\ calls' = Append(calls, "truncate")
     ELSE UNCHANGED <<content, calls>>
  /\ pc' = "print"
  /\ UNCHANGED <<argv, source, outcome, lexers, word_limit, output_html,
                 reads, renders, exit_code, stdout>>

\* view_markdown, lines 67-69: console.print(Markdown(content)); the program
\* then ends with status 0
ViewPrint ==
  /\ pc = "print"
  /\ stdout' = Append(stdout, content)
  /\ renders' = renders + 1
  /\ exit_code' = <<0>>
  /\ pc' = "exited"
  /\ UNCHANGED <<argv, source, outcome, lexers, word_limit, output_html,
                 content, reads, calls>>

Next ==
  \/ Usage
  \/ ParseArgs
  \/ FetchGithubRaw
  \/ OpenFile
  \/ ViewRender
  \/ ViewHtml
  \/ ViewTruncate
  \/ ViewPrint

Spec == InitCli /\ [][Next]_vars

(***************************************************************************)
(* Vocabulary of the properties.                                           *)
(***************************************************************************)
Has(s, c) == \E i \in 1..Len(s) : s[i] = c

Count(s, c) == Cardinality({i \in 1..Len(s) : s[i] = c})

BeginsWith(s, p) == StartsAt(s, 1, p)

EndsWith(s, p) == StartsAt(s, Len(s) - Len(p) + 1, p)

Contains(s, t) == \E i \in 1..(Len(s) + 1) : StartsAt(s, i, t)

\* s is m + t + m
Wrapped(s, m) == Len(s) >= 2 * Len(m) /\ BeginsWith(s, m) /\ EndsWith(s, m)

Inner(s, m) == SubSeq(s, Len(m) + 1, Len(s) - Len(m))

\* two non-overlapping occurrences of the marker m on one line of s
HasPair(s, m) ==
  \E i \in 1..Len(s) : \E k \in (i + Len(m))..Len(s) :
    /\ StartsAt(s, i, m)
    /\ StartsAt(s, k, m)
    /\ \A j \in i..k : s[j] # NL

BoldMark == <<"*", "*">>
UnderlineMark == <<"_", "_">>
StrikeMark == <<"~", "~">>

(***************************************************************************)
(* C1.  render_markdown("**" + t + "**") for t without '*'.                *)
(***************************************************************************)
\* C1 as claimed: for every t without '*', also one with a newline or with
\* other markers, the result begins with ESC[1m, ends with ESC[0m and
\* contains t.
C1_BoldAnyText ==
  (pc = "return" /\ Wrapped(source, BoldMark) /\ ~Has(Inner(source, BoldMark), "*"))
    => /\ BeginsWith(content, ANSI_CODES("bold"))
       /\ EndsWith(content, ANSI_CODES("reset"))
       /\ Contains(content, Inner(source, BoldMark))

\* C1 as amended: for every t with no '*', no newline, fewer than two '_' and
\* no pair of '~~' markers, the result is exactly ESC[1m + t + ESC[0m: it
\* begins with the bold prefix, ends with the reset and contains t.
C1_BoldOneLine ==
  LET t == Inner(source, BoldMark)
  IN (/\ pc = "return"
      /\ Wrapped(source, BoldMark)
      /\ ~Has(t, "*")
      /\ ~Has(t, NL)
      /\ Count(t, "_") < 2
      /\ ~HasPair(t, StrikeMark))
       => /\ content = ANSI_CODES("bold") \o t \o ANSI_CODES("reset")
          /\ BeginsWith(content, ANSI_CODES("bold"))
          /\ EndsWith(content, ANSI_CODES("reset"))
          /\ Contains(content, t)

\* a bold span over a text that carries other markers, rendered
C1_Witness ==
  /\ pc = "return"
  /\ source = BoldMark \o <<"#", "_", ">", "~">> \o BoldMark
  /\ content = ANSI_CODES("bold") \o <<"#", "_", ">", "~">> \o ANSI_CODES("reset")

(***************************************************************************)
(* C4.  render_markdown("__" + t + "__") for t without '_'.                *)
(***************************************************************************)
\* C4 as claimed: for every t without underscores, "__" + t + "__" renders
\* as the underline span ESC[4m + t + ESC[0m.
C4_UnderlineSpan ==
  (pc = "return" /\ Wrapped(source, UnderlineMark) /\ ~Has(Inner(source, UnderlineMark), "_"))
    => content = ANSI_CODES("underline") \o Inner(source, UnderlineMark) \o ANSI_CODES("reset")

\* what the code does instead: the underline prefix is in no output
NoUnderlinePrefix ==
  pc = "return" => ~Contains(content, ANSI_CODES("underline"))

(***************************************************************************)
(* C2.  A fenced block whose tag the highlighter does not resolve.         *)
(***************************************************************************)
\* the name highlight_code receives for the first fenced block of s
TagName(s) ==
  IF FenceMatch(s, 1).lang # <<>> THEN FenceMatch(s, 1).lang ELSE Plaintext

\* C2 as claimed: when the highlighter does not resolve the tag, what stands
\* in place of the block is the code body of the input, character for
\* character, whatever the body holds.
C2_FenceBodyVerbatim ==
  (/\ pc = "return"
   /\ FenceMatch(source, 1).end = Len(source) + 1
   /\ TagName(source) \notin lexers)
    => content = FenceMatch(source, 1).code

(***************************************************************************)
(* C5.  Unordered list items.                                              *)
(***************************************************************************)
Plain(s) == \A i \in 1..Len(s) : s[i] \in {"a", "."}

\* s is one line: a list marker, one or more spaces, then plain item text
IsItemLine(s) ==
  /\ Len(s) >= 2
  /\ s[1] \in {"*", "-", "+"}
  /\ s[2] = " "
  /\ ~Has(s, NL)
  /\ Plain(SubSeq(s, SkipSpace(s, 2), Len(s)))

\* C5 as claimed: a line that starts with '*', '-' or '+' and whitespace
\* becomes "- " + item text, for each of the three markers alike.
C5_ListMarkers ==
  (pc = "return" /\ IsItemLine(source))
    => content = <<"-", " ">> \o SubSeq(source, SkipSpace(source, 2), Len(source))

(***************************************************************************)
(* C6.  Heading lines.                                                     *)
(***************************************************************************)
\* where a run of spaces that starts at i stops
SkipBlanks(s, i) ==
  Min({j \in i..(Len(s) + 1) : j = Len(s) + 1 \/ s[j] # " "})

HeadText(s) == SubSeq(s, SkipBlanks(s, SkipHashes(s, 1)), EndOfLine(s, 1) - 1)

AfterHead(s) == SubSeq(s, EndOfLine(s, 1) + 1, Len(s))

\* s is a heading line (one to six '#', optional spaces, plain text, possibly
\* none), a line break, and plain text after it
IsHeadingThenText(s) ==
  /\ BeginsWith(s, <<"#">>)
  /\ EndOfLine(s, 1) <= Len(s)
  /\ SkipBlanks(s, SkipHashes(s, 1)) <= EndOfLine(s, 1)
  /\ Plain(HeadText(s))
  /\ Plain(AfterHead(s))

\* C6 as claimed: the heading line alone becomes ESC[1m + text + ESC[0m; the
\* line break and the line after it stay as they are, also when the heading
\* text is empty.
C6_HeadingPerLine ==
  (pc = "return" /\ IsHeadingThenText(source))
    => content = ANSI_CODES("bold") \o HeadText(source) \o ANSI_CODES("reset")
                   \o <<NL>> \o AfterHead(source)

(***************************************************************************)
(* C10.  Text without Markdown markup.                                     *)
(***************************************************************************)
\* none of the nine patterns, as the specification words them, is in s
NoMarkup(s) ==
  /\ \A i \in 1..Len(s) :
       LineStart(s, i) =>
         /\ s[i] # "#"
         /\ ~StartsAt(s, i, <<">", " ">>)
         /\ ~(s[i] \in {"*", "-", "+"} /\ i < Len(s) /\ IsSpace(s[i + 1]))
         /\ ~(IsDigit(s[i]) /\ SkipDigits(s, i) < Len(s)
                /\ s[SkipDigits(s, i)] = "." /\ IsSpace(s[SkipDigits(s, i) + 1]))
  /\ ~HasPair(s, BoldMark)
  /\ ~HasPair(s, <<"_">>)
  /\ ~HasPair(s, StrikeMark)
  /\ ~Contains(s, Fence)

\* C10: render_markdown returns a text without Markdown markup unchanged,
\* also one with an unbalanced '**' or a stray '_'.
C10_PlainTextIdentity ==
  (pc = "return" /\ NoMarkup(source)) => content = source

\* a text with an unbalanced '**' and a stray '_', returned as it was
C10_Witness ==
  /\ pc = "return"
  /\ source = <<"*", "*", "_", "a">>
  /\ NoMarkup(source)
  /\ content = source

(***************************************************************************)
(* C3.  Word-limit truncation in view_markdown.                            *)
(***************************************************************************)
\* the text view_markdown holds when it reaches the truncation
BeforeTruncation ==
  IF output_html THEN markdown_to_html(render_markdown(source, lexers))
  ELSE render_markdown(source, lexers)

\* C3 as claimed: for every word limit N, N = 0 included, the text passed to
\* the terminal renderer is the first N tokens joined by single spaces (all
\* the tokens when there are fewer than N).
C3_TruncateToLimit ==
  (pc = "exited" /\ exit_code = <<0>> /\ word_limit # None)
    => stdout = <<str_join(Take(str_split(BeforeTruncation), word_limit[1]))>>

(***************************************************************************)
(* C7.  A numeric argument 2 is the word limit.                            *)
(***************************************************************************)
\* C7 as claimed: whenever sys.argv[2] is numeric it is the word limit,
\* whatever arguments follow it.
C7_NumericArgIsLimit ==
  (pc # "main" /\ Len(argv) >= 3 /\ IsDecimal(argv[3]))
    => word_limit = <<int(argv[3])>>

(***************************************************************************)
(* C8.  The --html flag.                                                   *)
(***************************************************************************)
HtmlSecond == Len(argv) >= 3 /\ argv[3] = HtmlFlag

HtmlCalls ==
  CASE pc \in {"main", "get_file_content", "view_markdown"} -> <<>>
    [] pc = "html" -> <<"render_markdown">>
    [] pc = "truncate" -> <<"render_markdown", "markdown_to_html">>
    [] OTHER -> IF Truthy(word_limit)
                THEN <<"render_markdown", "markdown_to_html", "truncate">>
                ELSE <<"render_markdown", "markdown_to_html">>

NoArgument == Len(argv) < 2
FileMissing == Len(argv) >= 2 /\ ~IsRemote(argv[2]) /\ outcome = "FileNotFoundError"
FetchFailed == Len(argv) >= 2 /\ IsRemote(argv[2]) /\ outcome = "RequestException"

\* the two exceptions nothing catches: int() on an argument isdigit() accepts
\* and int() rejects, and open or read raising another exception than
\* FileNotFoundError
IntRaised ==
  \/ Len(argv) = 3 /\ argv[3] = SuperscriptTwo
  \/ Len(argv) = 4 /\ argv[3] = HtmlFlag /\ argv[4] = SuperscriptTwo
ReadRaised == Len(argv) >= 2 /\ ~IsRemote(argv[2]) /\ outcome = "PermissionError"

HandledFailure == NoArgument \/ FileMissing \/ FetchFailed

FailureExit ==
  /\ exit_code = <<1>>
  /\ stdout = <<IF NoArgument THEN "Usage"
                ELSE IF FileMissing THEN "File not found"
                ELSE "Error fetching file">>
  /\ reads = (IF NoArgument THEN 0 ELSE 1)

SuccessExit == reads = 1 /\ renders = 1 /\ exit_code = <<0>>

====
